---- MODULE Spec2Model ----
(***************************************************************************)
(* Products REST API: the express application (server.ts), the product     *)
(* router with its express-validator chains, and the request pipeline      *)
(* validators -> handleInputErrors -> handler over the products table.     *)
(*                                                                         *)
(* Text is a sequence of one-character strings, so that the validators'    *)
(* regular expressions and JavaScript's conversions are computed character *)
(* by character.  A number is [m, e], the decimal m / 10^e, normalised.    *)
(* A JSON value is [k, b, n, s]: its kind and its boolean, number or text. *)
(* Body fields range over JSON scalars (absent, null, boolean, number,     *)
(* string); arrays and objects as field values are outside the model.      *)
(***************************************************************************)
EXTENDS Integers, Sequences, FiniteSets, TLC

\* Cap on the table's id sequence: createProduct is not taken past it.
MaxId == 2

-----------------------------------------------------------------------------
(* Text and numbers *)

Digits == <<"0", "1", "2", "3", "4", "5", "6", "7", "8", "9">>

IsDigit(c) == \E i \in 1..10 : Digits[i] = c

DigitVal(c) == (CHOOSE i \in 1..10 : Digits[i] = c) - 1

AllDigits(s) == \A i \in 1..Len(s) : IsDigit(s[i])

RECURSIVE DigitsVal(_)
DigitsVal(s) ==
    IF s = <<>> THEN 0
    ELSE 10 * DigitsVal(SubSeq(s, 1, Len(s) - 1)) + DigitVal(s[Len(s)])

RECURSIVE NatToStr(_)
NatToStr(n) ==
    IF n < 10 THEN <<Digits[n + 1]>>
    ELSE NatToStr(n \div 10) \o <<Digits[(n % 10) + 1]>>

RECURSIVE Pow10(_)
Pow10(e) == IF e = 0 THEN 1 ELSE 10 * Pow10(e - 1)

RECURSIVE Normalize(_)
Normalize(x) ==
    IF x.e > 0 /\ x.m % 10 = 0
    THEN Normalize([m |-> x.m \div 10, e |-> x.e - 1])
    ELSE x

Num(m, e) == Normalize([m |-> m, e |-> e])

RECURSIVE PadLeft(_, _)
PadLeft(s, n) == IF Len(s) >= n THEN s ELSE PadLeft(<<"0">> \o s, n)

\* String(number) of JavaScript, for a decimal m / 10^e.
NumToStr(x) ==
    LET a    == IF x.m < 0 THEN 0 - x.m ELSE x.m
        sign == IF x.m < 0 THEN <<"-">> ELSE <<>>
        int  == NatToStr(a \div Pow10(x.e))
        frac == PadLeft(NatToStr(a % Pow10(x.e)), x.e)
    IN  IF x.e = 0 THEN sign \o int ELSE sign \o int \o <<".">> \o frac

HasSign(s) == Len(s) > 0 /\ s[1] \in {"+", "-"}

StripSign(s) == IF HasSign(s) THEN Tail(s) ELSE s

SignOf(s) == IF Len(s) > 0 /\ s[1] = "-" THEN 0 - 1 ELSE 1

DotAt(s) ==
    IF \E i \in 1..Len(s) : s[i] = "."
    THEN CHOOSE i \in 1..Len(s) : s[i] = "." /\ \A j \in 1..(i - 1) : s[j] # "."
    ELSE 0

IsSpace(c) == c \in {" "}

RECURSIVE Trim(_)
Trim(s) ==
    IF s = <<>> THEN s
    ELSE IF IsSpace(s[1]) THEN Trim(Tail(s))
    ELSE IF IsSpace(s[Len(s)]) THEN Trim(SubSeq(s, 1, Len(s) - 1))
    ELSE s

-----------------------------------------------------------------------------
(* JSON values *)

Zero == [m |-> 0, e |-> 0]

Undefined == [k |-> "undefined", b |-> FALSE, n |-> Zero, s |-> <<>>]
JNull     == [k |-> "null", b |-> FALSE, n |-> Zero, s |-> <<>>]
JBool(b)  == [k |-> "bool", b |-> b, n |-> Zero, s |-> <<>>]
JNum(m, e) == [k |-> "num", b |-> FALSE, n |-> Num(m, e), s |-> <<>>]
JStr(s)   == [k |-> "str", b |-> FALSE, n |-> Zero, s |-> s]

\* express-validator's toString: what every standard validator is given.
toString(v) ==
    CASE v.k \in {"undefined", "null"} -> <<>>
      [] v.k = "bool" -> IF v.b THEN <<"t", "r", "u", "e">>
                         ELSE <<"f", "a", "l", "s", "e">>
      [] v.k = "num" -> NumToStr(v.n)
      [] OTHER -> v.s

\* validator.js
isInt(s) == LET t == StripSign(s) IN Len(t) > 0 /\ AllDigits(t)

isNumeric(s) ==
    LET t == StripSign(s)
        d == DotAt(t)
        r == SubSeq(t, d + 1, Len(t))
    IN  /\ AllDigits(SubSeq(t, 1, d - 1))
        /\ Len(r) > 0
        /\ AllDigits(r)

isEmpty(s) == Len(s) = 0

isBoolean(s) ==
    s \in {<<"t", "r", "u", "e">>, <<"f", "a", "l", "s", "e">>, <<"1">>, <<"0">>}

\* JavaScript's ToNumber: [nan, n].  A string is trimmed; the empty string is 0,
\* a decimal literal (digits, digits.digits, digits., .digits, signed) its value,
\* anything else NaN.
NaN == [nan |-> TRUE, n |-> Zero]

Finite(x) == [nan |-> FALSE, n |-> x]

StringToNumber(s) ==
    LET u == Trim(s)
        t == StripSign(u)
        d == DotAt(t)
        i == IF d = 0 THEN t ELSE SubSeq(t, 1, d - 1)
        f == IF d = 0 THEN <<>> ELSE SubSeq(t, d + 1, Len(t))
    IN  IF u = <<>> THEN Finite(Zero)
        ELSE IF AllDigits(i) /\ AllDigits(f) /\ Len(i) + Len(f) > 0
        THEN Finite(Num(SignOf(u) * DigitsVal(i \o f), Len(f)))
        ELSE NaN

ToNumber(v) ==
    CASE v.k = "undefined" -> NaN
      [] v.k = "null" -> Finite(Zero)
      [] v.k = "bool" -> Finite(IF v.b THEN Num(1, 0) ELSE Zero)
      [] v.k = "num" -> Finite(v.n)
      [] OTHER -> StringToNumber(v.s)

\* Faulty variants of the price rule: value >= 0, value < 0.
GreaterOrEqualZero(v) == LET x == ToNumber(v) IN ~x.nan /\ x.n.m >= 0

LessThanZero(v) == LET x == ToNumber(v) IN ~x.nan /\ x.n.m < 0

\* value > 0 and value <= 0 of JavaScript (a comparison with NaN is false).
GreaterThanZero(v) == LET x == ToNumber(v) IN ~x.nan /\ x.n.m > 0

AtMostZero(v) == LET x == ToNumber(v) IN ~x.nan /\ x.n.m <= 0

-----------------------------------------------------------------------------
(* server.ts: the CORS allow-list *)

FRONTEND_URL == "https://frontend.example"

whitelist == {FRONTEND_URL, "http://localhost:5173"}

NoOrigin == [present |-> FALSE, value |-> ""]

Origin(o) == [present |-> TRUE, value |-> o]

\* Faulty variant: the allow-list test inverted.
corsAllowsUnlisted(origin) ==
    \/ ~origin.present
    \/ origin.value = ""
    \/ origin.value \notin whitelist

\* corsOptions.origin: !origin || whitelist.includes(origin)
corsAllows(origin) ==
    \/ ~origin.present
    \/ origin.value = ""
    \/ origin.value \in whitelist

-----------------------------------------------------------------------------
(* router: validation chains and routes *)

NoChain == [loc |-> "none", field |-> "none", checks |-> <<>>]

Validator(c) == [kind |-> "validator", chain |-> c, name |-> "none"]

handleInputErrors == [kind |-> "gate", chain |-> NoChain, name |-> "handleInputErrors"]

Handler(h) == [kind |-> "handler", chain |-> NoChain, name |-> h]

paramId ==
    [loc |-> "params", field |-> "id",
     checks |-> <<[fn |-> "isInt", msg |-> "ID no Valido"]>>]

bodyName ==
    [loc |-> "body", field |-> "name",
     checks |-> <<[fn |-> "notEmpty", msg |-> "El nombre de Producto no puede ir vacio"]>>]

\* Faulty variant: the price chain without its custom rule.
bodyPriceNoCustom ==
    [loc |-> "body", field |-> "price",
     checks |-> <<[fn |-> "isNumeric", msg |-> "Precio no valido"],
                  [fn |-> "notEmpty", msg |-> "El precio de Producto no puede ir vacio"]>>]

bodyPrice ==
    [loc |-> "body", field |-> "price",
     checks |-> <<[fn |-> "isNumeric", msg |-> "Precio no valido"],
                  [fn |-> "notEmpty", msg |-> "El precio de Producto no puede ir vacio"],
                  [fn |-> "custom", msg |-> "Precio no valido"]>>]

bodyAvailability ==
    [loc |-> "body", field |-> "availability",
     checks |-> <<[fn |-> "isBoolean", msg |-> "Valor para Disponibilidad no valido"]>>]

\* Faulty variant: GET / registered with the handler of GET /:id.
RouteGetAllById ==
    [method |-> "GET", path |-> "/", stack |-> <<Handler("getProductById")>>]

RouteGetAll ==
    [method |-> "GET", path |-> "/", stack |-> <<Handler("getProducts")>>]

\* Faulty variant: GET /:id registered without the gate.
RouteGetIdNoGate ==
    [method |-> "GET", path |-> "/:id",
     stack |-> <<Validator(paramId), Handler("getProductById")>>]

RouteGetId ==
    [method |-> "GET", path |-> "/:id",
     stack |-> <<Validator(paramId), handleInputErrors, Handler("getProductById")>>]

RoutePost ==
    [method |-> "POST", path |-> "/",
     stack |-> <<Validator(bodyName), Validator(bodyPrice), handleInputErrors,
                 Handler("createProduct")>>]

\* Faulty variants: PUT /:id registered with the handler of POST /, and with
\* the handler of PATCH /:id.
RoutePutCreates ==
    [method |-> "PUT", path |-> "/:id",
     stack |-> <<Validator(paramId), Validator(bodyName), Validator(bodyPrice),
                 Validator(bodyAvailability), handleInputErrors,
                 Handler("createProduct")>>]

RoutePutToggles ==
    [method |-> "PUT", path |-> "/:id",
     stack |-> <<Validator(paramId), Validator(bodyName), Validator(bodyPrice),
                 Validator(bodyAvailability), handleInputErrors,
                 Handler("updateAvailability")>>]

RoutePut ==
    [method |-> "PUT", path |-> "/:id",
     stack |-> <<Validator(paramId), Validator(bodyName), Validator(bodyPrice),
                 Validator(bodyAvailability), handleInputErrors,
                 Handler("updateProduct")>>]

\* Faulty variant: PATCH /:id registered with the handler of GET /:id.
RoutePatchReads ==
    [method |-> "PATCH", path |-> "/:id",
     stack |-> <<Validator(paramId), handleInputErrors, Handler("getProductById")>>]

RoutePatch ==
    [method |-> "PATCH", path |-> "/:id",
     stack |-> <<Validator(paramId), handleInputErrors, Handler("updateAvailability")>>]

\* Faulty variant: DELETE /:id registered with the handler of GET /:id.
RouteDeleteReads ==
    [method |-> "DELETE", path |-> "/:id",
     stack |-> <<Validator(paramId), handleInputErrors, Handler("getProductById")>>]

RouteDelete ==
    [method |-> "DELETE", path |-> "/:id",
     stack |-> <<Validator(paramId), handleInputErrors, Handler("deleteProduct")>>]

router == <<RouteGetAll, RouteGetId, RoutePost, RoutePut, RoutePatch, RouteDelete>>

\* A request: the Origin header, the mount point, the method, the path segment
\* after the mount point (empty for "/") and the parsed JSON body.
PathMatches(pattern, id) == IF pattern = "/" THEN id = <<>> ELSE id # <<>>

RouteMatches(route, r) == route.method = r.method /\ PathMatches(route.path, r.id)

FieldValue(chain, r) ==
    CASE chain.loc = "params" -> JStr(r.id)
      [] chain.field = "name" -> r.body.name
      [] chain.field = "price" -> r.body.price
      [] OTHER -> r.body.availability

\* One validator of a chain on a field's value.
Passes(fn, v) ==
    CASE fn = "isInt" -> isInt(toString(v))
      [] fn = "notEmpty" -> ~isEmpty(toString(v))
      [] fn = "isNumeric" -> isNumeric(toString(v))
      [] fn = "isBoolean" -> isBoolean(toString(v))
      [] OTHER -> GreaterThanZero(v)

\* A chain runs every validator it lists and records one error per failure.
RECURSIVE ChainErrors(_, _, _)
ChainErrors(chain, v, i) ==
    IF i > Len(chain.checks) THEN <<>>
    ELSE (IF Passes(chain.checks[i].fn, v) THEN <<>>
          ELSE <<[field |-> chain.field, message |-> chain.checks[i].msg]>>)
         \o ChainErrors(chain, v, i + 1)

\* The gate: with validation errors on the request it answers 400 with their
\* list and the chain stops; with none it calls next().
InputErrorsGate(errors) ==
    IF errors # <<>>
    THEN [next |-> FALSE, status |-> 400, errors |-> errors]
    ELSE [next |-> TRUE, status |-> 0, errors |-> <<>>]

\* The middleware of a route in order, up to the handler: validators add to the
\* request's errors, the gate answers or passes on, the handler is named for
\* invocation.
RECURSIVE RunStack(_, _, _, _)
RunStack(stack, i, r, errors) ==
    IF i > Len(stack)
    THEN [status |-> 404, errors |-> <<>>, handler |-> "none"]
    ELSE CASE stack[i].kind = "validator" ->
                RunStack(stack, i + 1, r,
                         errors \o ChainErrors(stack[i].chain,
                                               FieldValue(stack[i].chain, r), 1))
           [] stack[i].kind = "gate" ->
                LET g == InputErrorsGate(errors)
                IN  IF g.next THEN RunStack(stack, i + 1, r, errors)
                    ELSE [status |-> g.status, errors |-> g.errors, handler |-> "none"]
           [] OTHER -> [status |-> 0, errors |-> <<>>, handler |-> stack[i].name]

\* server.ts: cors, then the router mounted on /api/products, then /docs.
Dispatch(r) ==
    IF ~corsAllows(r.origin)
    THEN [status |-> 500, errors |-> <<>>, handler |-> "none"]
    ELSE IF r.mount = "/docs"
    THEN [status |-> 200, errors |-> <<>>, handler |-> "none"]
    ELSE IF \E k \in 1..Len(router) : RouteMatches(router[k], r)
    THEN LET k == CHOOSE k \in 1..Len(router) :
                    /\ RouteMatches(router[k], r)
                    /\ \A j \in 1..(k - 1) : ~RouteMatches(router[j], r)
         IN  RunStack(router[k].stack, 1, r, <<>>)
    ELSE [status |-> 404, errors |-> <<>>, handler |-> "none"]

-----------------------------------------------------------------------------
(* The products table and the handlers *)

\* A row is [id, name, price, availability]: name is text, price a number.
Row(id, name, price, availability) ==
    [id |-> id, name |-> name, price |-> price, availability |-> availability]

\* The integer a column of type integer reads from the text of an id.
ParseInt(s) == SignOf(s) * DigitsVal(StripSign(s))

\* What the boolean column stores for a value that isBoolean accepts.
ToBool(v) == toString(v) \in {<<"t", "r", "u", "e">>, <<"1">>}

FindByPk(tbl, id) == {row \in tbl : row.id = ParseInt(id)}

RECURSIVE SortById(_)
SortById(rows) ==
    IF rows = {} THEN <<>>
    ELSE LET first == CHOOSE x \in rows : \A y \in rows : x.id <= y.id
         IN  <<first>> \o SortById(rows \ {first})

\* A handler's outcome: the response, the persistence calls it made, and the
\* table and id sequence it leaves.
Outcome(status, data, calls, tbl, seq) ==
    [status |-> status, data |-> data, calls |-> calls, table |-> tbl, nextId |-> seq]

\* A query the database rejects (an id that is no integer, a price that is no
\* number): the generic error response, nothing stored.
QueryFails(call, tbl, seq) == Outcome(500, <<>>, <<call>>, tbl, seq)

getProducts(tbl, seq, r) == Outcome(200, SortById(tbl), <<"findAll">>, tbl, seq)

getProductById(tbl, seq, r) ==
    IF ~isInt(r.id) THEN QueryFails("findByPk", tbl, seq)
    ELSE LET found == FindByPk(tbl, r.id)
         IN  IF found = {} THEN Outcome(404, <<>>, <<"findByPk">>, tbl, seq)
             ELSE Outcome(200, SortById(found), <<"findByPk">>, tbl, seq)

createProduct(tbl, seq, r) ==
    IF ToNumber(r.body.price).nan THEN QueryFails("create", tbl, seq)
    ELSE LET row == Row(seq, toString(r.body.name), ToNumber(r.body.price).n, TRUE)
         IN  Outcome(201, <<row>>, <<"create">>, tbl \cup {row}, seq + 1)

\* The row updateProduct persists over `old`.
UpdatedRow(old, r) ==
    Row(old.id, toString(r.body.name), ToNumber(r.body.price).n,
        ToBool(r.body.availability))

\* save(): the row with that id, if it is still there, is overwritten.
Save(tbl, row) ==
    IF \E x \in tbl : x.id = row.id
    THEN {x \in tbl : x.id # row.id} \cup {row}
    ELSE tbl

updateProduct(tbl, seq, r) ==
    IF ~isInt(r.id) THEN QueryFails("findByPk", tbl, seq)
    ELSE LET found == FindByPk(tbl, r.id)
         IN  IF found = {} THEN Outcome(404, <<>>, <<"findByPk">>, tbl, seq)
             ELSE IF ToNumber(r.body.price).nan
             THEN Outcome(500, <<>>, <<"findByPk", "save">>, tbl, seq)
             ELSE LET row == UpdatedRow(CHOOSE x \in found : TRUE, r)
                  IN  Outcome(200, <<row>>, <<"findByPk", "save">>, Save(tbl, row), seq)

updateAvailability(tbl, seq, r) ==
    IF ~isInt(r.id) THEN QueryFails("findByPk", tbl, seq)
    ELSE LET found == FindByPk(tbl, r.id)
         IN  IF found = {} THEN Outcome(404, <<>>, <<"findByPk">>, tbl, seq)
             ELSE LET old == CHOOSE x \in found : TRUE
                      row == [old EXCEPT !.availability = ~old.availability]
                  IN  Outcome(200, <<row>>, <<"findByPk", "save">>, Save(tbl, row), seq)

deleteProduct(tbl, seq, r) ==
    IF ~isInt(r.id) THEN QueryFails("findByPk", tbl, seq)
    ELSE LET found == FindByPk(tbl, r.id)
         IN  IF found = {} THEN Outcome(404, <<>>, <<"findByPk">>, tbl, seq)
             ELSE Outcome(200, <<>>, <<"findByPk", "destroy">>, tbl \ found, seq)

Invoke(h, tbl, seq, r) ==
    CASE h = "getProducts" -> getProducts(tbl, seq, r)
      [] h = "getProductById" -> getProductById(tbl, seq, r)
      [] h = "createProduct" -> createProduct(tbl, seq, r)
      [] h = "updateProduct" -> updateProduct(tbl, seq, r)
      [] h = "updateAvailability" -> updateAvailability(tbl, seq, r)
      [] OTHER -> deleteProduct(tbl, seq, r)

\* One request from arrival to response.
Process(tbl, seq, r) ==
    LET d == Dispatch(r)
    IN  IF d.handler = "none"
        THEN [status |-> d.status, errors |-> d.errors, data |-> <<>>,
              handler |-> "none", calls |-> <<>>, table |-> tbl, nextId |-> seq]
        ELSE LET o == Invoke(d.handler, tbl, seq, r)
             IN  [status |-> o.status, errors |-> <<>>, data |-> o.data,
                  handler |-> d.handler, calls |-> o.calls,
                  table |-> o.table, nextId |-> o.nextId]

-----------------------------------------------------------------------------
(* Requests *)

Body(name, price, availability) ==
    [name |-> name, price |-> price, availability |-> availability]

EmptyBody == Body(Undefined, Undefined, Undefined)

Request(origin, mount, method, id, body) ==
    [origin |-> origin, mount |-> mount, method |-> method, id |-> id, body |-> body]

Localhost == Origin("http://localhost:5173")

OriginInputs ==
    {NoOrigin, Origin(""), Origin(FRONTEND_URL), Localhost,
     Origin("http://evil.example")}

IdInputs ==
    {NatToStr(i) : i \in 1..(MaxId + 1)}
        \cup {<<"0", "1">>, <<"-", "1">>, <<"1", ".", "5">>, <<"a">>}

NameInputs == {Undefined, JStr(<<>>), JStr(<<" ">>), JStr(<<"M">>)}

PriceInputs ==
    {Undefined, JNum(300, 0), JStr(<<"0", ".", "5">>), JNum(0, 0), JNum(0 - 5, 0),
     JStr(<<"-", "1">>), JStr(<<"a", "b", "c">>)}

AvailabilityInputs ==
    {Undefined, JBool(TRUE), JBool(FALSE), JStr(<<"1">>), JStr(<<"y", "e", "s">>)}

ValidBody == Body(JStr(<<"M">>), JNum(300, 0), JBool(TRUE))

\* Bodies the PUT validators accept.
AcceptedBodies ==
    {Body(n, p, a) : n \in {JStr(<<" ">>), JStr(<<"M">>)},
                     p \in {JNum(300, 0), JStr(<<"0", ".", "5">>)},
                     a \in {JBool(TRUE), JBool(FALSE)}}

\* Requests to the products router from the development origin: every id with
\* every method, every POST body, every PUT body on id 1 and the accepted
\* bodies on every id, and the method and path pairs no route declares.
ProductRequests ==
    {Request(Localhost, "/api/products", "GET", <<>>, EmptyBody)}
        \cup {Request(Localhost, "/api/products", m, id, EmptyBody) :
                m \in {"GET", "PATCH", "DELETE"}, id \in IdInputs}
        \cup {Request(Localhost, "/api/products", "POST", <<>>, Body(n, p, Undefined)) :
                n \in NameInputs, p \in PriceInputs}
        \cup {Request(Localhost, "/api/products", "PUT", <<"1">>, Body(n, p, a)) :
                n \in NameInputs, p \in PriceInputs, a \in AvailabilityInputs}
        \cup {Request(Localhost, "/api/products", "PUT", id, b) :
                id \in IdInputs, b \in AcceptedBodies}
        \cup {Request(Localhost, "/api/products", "POST", <<"1">>, ValidBody),
              Request(Localhost, "/api/products", "PUT", <<>>, ValidBody),
              Request(Localhost, "/api/products", "PATCH", <<>>, EmptyBody),
              Request(Localhost, "/api/products", "DELETE", <<>>, EmptyBody)}

\* The same kinds of request from every other origin, and the documentation.
OriginRequests ==
    {Request(o, "/api/products", "GET", <<>>, EmptyBody) : o \in OriginInputs}
        \cup {Request(o, "/api/products", "GET", <<"1">>, EmptyBody) : o \in OriginInputs}
        \cup {Request(o, "/api/products", "POST", <<>>, ValidBody) : o \in OriginInputs}
        \cup {Request(o, "/api/products", "PUT", <<"1">>, ValidBody) : o \in OriginInputs}
        \cup {Request(o, "/api/products", "PATCH", <<"1">>, EmptyBody) : o \in OriginInputs}
        \cup {Request(o, "/api/products", "DELETE", <<"1">>, EmptyBody) : o \in OriginInputs}
        \cup {Request(o, "/docs", "GET", <<>>, EmptyBody) : o \in OriginInputs}

Requests == ProductRequests \cup OriginRequests

NoReq == Request(NoOrigin, "none", "none", <<>>, EmptyBody)

NoRes ==
    [status |-> 0, errors |-> <<>>, data |-> <<>>, handler |-> "none", calls |-> <<>>]

Ids(tbl) == {row.id : row \in tbl}

-----------------------------------------------------------------------------
(* State *)

VARIABLES
    table,      \* the products table: a set of rows
    nextId,     \* the table's id sequence
    everIds,    \* history: every id a row ever had
    deleted,    \* history: the ids whose DELETE answered 200
    submitted,  \* history: id of a row -> the name and price last accepted for it
    before,     \* history: the table as the request being served found it
    pc,         \* "idle", "pending" (a request arrived), "responded"
    req,        \* the request being served
    res,        \* its response, with the handler invoked and the calls it made
    slots,      \* concurrent PUT requests: slot -> [pc, req, found, status]
    writeOrder  \* history: the slots in the order their save() ran

vars ==
    <<table, nextId, everIds, deleted, submitted, before, pc, req, res, slots,
      writeOrder>>

Slots == {1, 2}

IdleSlot == [pc |-> "idle", req |-> NoReq, found |-> {}, status |-> 0]

Init ==
    /\ table = {}
    /\ nextId = 1
    /\ everIds = {}
    /\ deleted = {}
    /\ submitted = <<>>
    /\ before = {}
    /\ pc = "idle"
    /\ req = NoReq
    /\ res = NoRes
    /\ slots = [s \in Slots |-> IdleSlot]
    /\ writeOrder = <<>>

Accepted(r) == [name |-> r.body.name, price |-> r.body.price]

\* A request arrives.
Receive(r) ==
    /\ pc = "idle"
    /\ r.method = "POST" => nextId <= MaxId
    /\ req' = r
    /\ before' = table
    /\ pc' = "pending"
    /\ UNCHANGED <<table, nextId, everIds, deleted, submitted, res, slots, writeOrder>>

\* The application serves it: cors, routing, validators, gate, handler.
Handle ==
    /\ pc = "pending"
    /\ LET p == Process(table, nextId, req)
       IN  /\ table' = p.table
           /\ nextId' = p.nextId
           /\ res' = [status |-> p.status, errors |-> p.errors, data |-> p.data,
                      handler |-> p.handler, calls |-> p.calls]
           /\ everIds' = everIds \cup Ids(p.table)
           /\ deleted' = IF req.method = "DELETE" /\ isInt(req.id) /\ p.status = 200
                         THEN deleted \cup {ParseInt(req.id)}
                         ELSE deleted
           /\ submitted' =
                IF req.method \in {"POST", "PUT"} /\ p.status \in {200, 201}
                   /\ Len(p.data) = 1
                THEN (p.data[1].id :> Accepted(req)) @@ submitted
                ELSE [i \in DOMAIN submitted \cap Ids(p.table) |-> submitted[i]]
    /\ pc' = "responded"
    /\ UNCHANGED <<before, req, slots, writeOrder>>

\* The response is sent and the request is over.
Send ==
    /\ pc = "responded"
    /\ pc' = "idle"
    /\ req' = NoReq
    /\ res' = NoRes
    /\ before' = {}
    /\ UNCHANGED <<table, nextId, everIds, deleted, submitted, slots, writeOrder>>

Next ==
    \/ \E r \in Requests : Receive(r)
    \/ Handle
    \/ Send

Spec == Init /\ [][Next]_vars

-----------------------------------------------------------------------------
(* Concurrent PUT requests: updateProduct suspends between findByPk and save *)

RaceRequests ==
    {Request(Localhost, "/api/products", "PUT", id, b) :
        id \in {NatToStr(i) : i \in 1..MaxId}, b \in AcceptedBodies}
        \cup {Request(Localhost, "/api/products", "PUT", <<"a">>, ValidBody),
              Request(Localhost, "/api/products", "PUT", NatToStr(MaxId + 1), ValidBody),
              Request(Localhost, "/api/products", "PUT", <<"1">>,
                      Body(JStr(<<>>), JNum(0, 0), Undefined))}

\* The table after k valid creates, each of {name: "M", price: 300}.
CreatedTable(k) == {Row(i, <<"M">>, Num(300, 0), TRUE) : i \in 1..k}

RaceInit ==
    /\ \E k \in 1..MaxId :
         /\ table = CreatedTable(k)
         /\ nextId = k + 1
         /\ everIds = 1..k
         /\ submitted = [i \in 1..k |-> [name |-> JStr(<<"M">>), price |-> JNum(300, 0)]]
    /\ deleted = {}
    /\ before = {}
    /\ pc = "idle"
    /\ req = NoReq
    /\ res = NoRes
    /\ slots = [s \in Slots |-> IdleSlot]
    /\ writeOrder = <<>>

\* A PUT arrives on slot s and runs to its first suspension: cors, routing,
\* validators, gate, then updateProduct up to the answer of findByPk.
RaceLookup(s, r) ==
    /\ slots[s].pc = "idle"
    /\ LET d == Dispatch(r)
           found == FindByPk(table, r.id)
       IN  IF d.handler = "updateProduct" /\ isInt(r.id) /\ found # {}
           THEN /\ slots' = [slots EXCEPT ![s] =
                               [pc |-> "found", req |-> r, found |-> found, status |-> 0]]
                /\ UNCHANGED <<table, nextId>>
           ELSE LET p == Process(table, nextId, r)
                IN  /\ slots' = [slots EXCEPT ![s] =
                                   [pc |-> "done", req |-> r, found |-> {},
                                    status |-> p.status]]
                    /\ table' = p.table
                    /\ nextId' = p.nextId
    /\ everIds' = everIds \cup Ids(table')
    /\ UNCHANGED <<deleted, submitted, before, pc, req, res, writeOrder>>

\* updateProduct resumes on slot s: it overwrites the row it found, saves it
\* and answers 200.
RacePersist(s) ==
    /\ slots[s].pc = "found"
    /\ LET row == UpdatedRow(CHOOSE x \in slots[s].found : TRUE, slots[s].req)
       IN  /\ table' = Save(table, row)
           /\ submitted' = (row.id :> Accepted(slots[s].req)) @@ submitted
    /\ slots' = [slots EXCEPT ![s].pc = "done", ![s].status = 200]
    /\ writeOrder' = Append(writeOrder, s)
    /\ UNCHANGED <<nextId, everIds, deleted, before, pc, req, res>>

RaceNext ==
    \/ \E s \in Slots, r \in RaceRequests : RaceLookup(s, r)
    \/ \E s \in Slots : RacePersist(s)

RaceSpec == RaceInit /\ [][RaceNext]_vars

-----------------------------------------------------------------------------
(* Properties *)

\* The request passed cors and is addressed to the products router.
ReachesRouter(r) == corsAllows(r.origin) /\ r.mount = "/api/products"

OnItem(r, m) == ReachesRouter(r) /\ r.method = m /\ r.id # <<>>

OnCollection(r, m) == ReachesRouter(r) /\ r.method = m /\ r.id = <<>>

\* The routes that declare validators, and the handler each one names.
Validated(r) ==
    \/ OnCollection(r, "POST")
    \/ \E m \in {"GET", "PUT", "PATCH", "DELETE"} : OnItem(r, m)

DeclaredHandler(r) ==
    CASE r.method = "GET" -> "getProductById"
      [] r.method = "POST" -> "createProduct"
      [] r.method = "PUT" -> "updateProduct"
      [] r.method = "PATCH" -> "updateAvailability"
      [] OTHER -> "deleteProduct"

\* Every failure of every validator the request's route declares, in order.
RECURSIVE StackFailures(_, _, _)
StackFailures(stack, i, r) ==
    IF i > Len(stack) THEN <<>>
    ELSE (IF stack[i].kind = "validator"
          THEN ChainErrors(stack[i].chain, FieldValue(stack[i].chain, r), 1)
          ELSE <<>>)
         \o StackFailures(stack, i + 1, r)

DeclaredFailures(r) ==
    LET k == CHOOSE k \in 1..Len(router) : RouteMatches(router[k], r)
    IN  StackFailures(router[k].stack, 1, r)

\* C1: on a route that declares validators, a request with a failed rule is
\* answered 400 with the list of failures, its handler is not invoked and no
\* persistence call is made; a request with no failed rule has the route's
\* handler invoked.  A GET /:id whose id is not an integer is answered 400 and
\* makes no persistence call.
C1_GateBeforeHandler ==
    pc = "responded" /\ Validated(req) =>
        /\ DeclaredFailures(req) # <<>> =>
              /\ res.status = 400
              /\ res.errors = DeclaredFailures(req)
              /\ res.handler = "none"
              /\ res.calls = <<>>
              /\ table = before
        /\ DeclaredFailures(req) = <<>> => res.handler = DeclaredHandler(req)
        /\ OnItem(req, "GET") /\ ~isInt(req.id) =>
              res.status = 400 /\ res.calls = <<>> /\ res.handler = "none"

C1_Witness ==
    /\ pc = "responded"
    /\ OnItem(req, "GET")
    /\ req.id = <<"1", ".", "5">>
    /\ res.status = 400
    /\ table # {}

EmptyName(v) == v.k \in {"undefined", "null"} \/ (v.k = "str" /\ v.s = <<>>)

\* C2: a POST / whose price is <= 0 or whose name is empty is answered 400 and
\* the table after it equals the table before it.
C2_InvalidCreateRejected ==
    /\ pc = "responded"
    /\ OnCollection(req, "POST")
    /\ AtMostZero(req.body.price) \/ EmptyName(req.body.name)
    => res.status = 400 /\ table = before

C2_Witness ==
    /\ pc = "responded"
    /\ OnCollection(req, "POST")
    /\ req.body.price = JNum(0, 0)
    /\ req.body.name = JStr(<<"M">>)
    /\ res.status = 400

\* C3: every row of the table has a price > 0 and a non-empty name.
C3_RowsValid == \A row \in table : row.price.m > 0 /\ row.name # <<>>

C3_Witness ==
    /\ Cardinality(table) = MaxId
    /\ \E row \in table : row.price = Num(5, 1) /\ row.name = <<" ">>
    /\ pc = "responded"
    /\ req.method = "PUT"
    /\ res.status = 200

\* A body POST / is documented to take: a non-empty name and a price, a number
\* or the decimal text of one, greater than zero.
ValidCreate(b) ==
    /\ b.name.k = "str" /\ b.name.s # <<>>
    /\ \/ b.price.k = "num" /\ b.price.n.m > 0
       \/ b.price.k = "str" /\ isNumeric(b.price.s) /\ GreaterThanZero(b.price)

ValidUpdate(b) == ValidCreate(b) /\ b.availability.k = "bool"

\* The price a body carries, as a number.
PriceOf(b) == IF b.price.k = "num" THEN b.price.n ELSE StringToNumber(b.price.s).n

\* C4: a POST / with a valid body is answered 201 and inserts exactly one row,
\* whose availability is true and whose id no row has or ever had, deleted
\* rows included.
C4_CreateAssignsFreshId ==
    [][pc = "pending" /\ OnCollection(req, "POST") /\ ValidCreate(req.body) =>
         /\ res'.status = 201
         /\ \E row \in table' :
              /\ row \notin table
              /\ table' = table \cup {row}
              /\ row.availability = TRUE
              /\ row.id \notin everIds
              /\ row.id \notin Ids(table)
              /\ row.name = req.body.name.s
              /\ row.price = PriceOf(req.body)
              /\ res'.data = <<row>>]_vars

C4_Witness ==
    /\ pc = "responded"
    /\ OnCollection(req, "POST")
    /\ res.status = 201
    /\ deleted # {}
    /\ \A row \in table : row.id \notin deleted

\* C5: PATCH /:id on an existing product is answered 200 and negates its
\* availability, and a second PATCH of the same id right after it restores
\* the table the first one found.
C5_PatchToggles ==
    /\ pc = "responded"
    /\ OnItem(req, "PATCH")
    /\ isInt(req.id)
    /\ ParseInt(req.id) \in Ids(before)
    => LET old == CHOOSE row \in before : row.id = ParseInt(req.id)
           again == Process(table, nextId, req)
       IN  /\ res.status = 200
           /\ table = (before \ {old})
                        \cup {[old EXCEPT !.availability = ~old.availability]}
           /\ again.status = 200
           /\ again.table = before

C5_Witness ==
    /\ pc = "responded"
    /\ OnItem(req, "PATCH")
    /\ res.status = 200
    /\ \E row \in before : row.id = ParseInt(req.id) /\ ~row.availability
    /\ \E row \in table : row.id = ParseInt(req.id) /\ row.availability

\* C6: once a DELETE /:id has answered 200, every later GET /:id of that id is
\* answered 404, and no row has that id again.
C6_DeletedStaysGone ==
    /\ Ids(table) \cap deleted = {}
    /\ pc = "responded" /\ OnItem(req, "GET") /\ isInt(req.id)
          /\ ParseInt(req.id) \in deleted
       => res.status = 404

C6_Witness ==
    /\ pc = "responded"
    /\ OnItem(req, "GET")
    /\ req.id = <<"0", "1">>
    /\ 1 \in deleted
    /\ table # {}
    /\ res.status = 404

\* C7: a PUT /:id with a full valid body and an integer id that matches no row
\* is answered 404 and leaves the table as it was.
C7_UpdateMissingIs404 ==
    /\ pc = "responded"
    /\ OnItem(req, "PUT")
    /\ ValidUpdate(req.body)
    /\ isInt(req.id)
    /\ ParseInt(req.id) \notin Ids(before)
    => res.status = 404 /\ table = before

C7_Witness ==
    /\ pc = "responded"
    /\ OnItem(req, "PUT")
    /\ ValidUpdate(req.body)
    /\ isInt(req.id)
    /\ ParseInt(req.id) \in deleted
    /\ res.status = 404
    /\ table # {}

\* C8: GET / is answered 200 with exactly the rows of the table in ascending
\* id order, each with the name and the price last accepted for it by a
\* create or an update.
C8_ListRoundTrip ==
    pc = "responded" /\ OnCollection(req, "GET") =>
        /\ res.status = 200
        /\ Len(res.data) = Cardinality(table)
        /\ {res.data[i] : i \in 1..Len(res.data)} = table
        /\ \A i \in 1..(Len(res.data) - 1) : res.data[i].id < res.data[i + 1].id
        /\ \A i \in 1..Len(res.data) :
              /\ res.data[i].id \in DOMAIN submitted
              /\ res.data[i].name = submitted[res.data[i].id].name.s
              /\ res.data[i].price = PriceOf(submitted[res.data[i].id])

C8_Witness ==
    /\ pc = "responded"
    /\ OnCollection(req, "GET")
    /\ Len(res.data) = 2
    /\ res.data[1].price # res.data[2].price
    /\ res.data[1].name # res.data[2].name
    /\ submitted[res.data[1].id].price.k = "str"

AllowList == {"http://localhost:5173", FRONTEND_URL}

Rejected == res.status = 500 /\ res.handler = "none" /\ res.calls = <<>> /\ table = before

\* C9 as stated: a request from outside the allow-list of origins is rejected
\* with an error and reaches no route and no handler.
C9_OnlyAllowListed ==
    pc = "responded" /\ ~(req.origin.present /\ req.origin.value \in AllowList)
        => Rejected

\* C9 as amended: a request whose Origin header names an origin outside the
\* allow-list is rejected with an error and reaches no route and no handler;
\* a request with no Origin header (or an empty one), like one from an
\* allow-listed origin, is not rejected.
C9_UnlistedOriginRejected ==
    pc = "responded" =>
        IF req.origin.present /\ req.origin.value # ""
              /\ req.origin.value \notin AllowList
        THEN Rejected
        ELSE res.status # 500

C9_Witness ==
    /\ pc = "responded"
    /\ req.origin = Origin("http://evil.example")
    /\ req.method = "DELETE"
    /\ 1 \in Ids(table)
    /\ res.status = 500

\* The row a PUT asks for.
RequestedRow(r) ==
    Row(ParseInt(r.id), r.body.name.s, PriceOf(r.body), r.body.availability.b)

BothDone == \A s \in Slots : slots[s].pc = "done"

SameExistingId ==
    /\ slots[1].req.id = slots[2].req.id
    /\ isInt(slots[1].req.id)
    /\ ParseInt(slots[1].req.id) \in Ids(table)
    /\ \A s \in Slots : ValidUpdate(slots[s].req.body)

\* C10: two concurrent PUT /:id of the same existing id, interleaved in any
\* order of their lookup and persist steps, are both answered 200, and the
\* row then stored is the one asked for by the request whose persist step ran
\* last.
C10_LastWriteWins ==
    BothDone /\ SameExistingId =>
        /\ \A s \in Slots : slots[s].status = 200
        /\ Len(writeOrder) = 2
        /\ RequestedRow(slots[writeOrder[2]].req) \in table
        /\ \A row \in table :
              row.id = ParseInt(slots[1].req.id) =>
                 row = RequestedRow(slots[writeOrder[2]].req)

\* Both lookups ran before either persist: each found the original row, which
\* neither request asks for.
C10_Witness ==
    /\ BothDone /\ SameExistingId
    /\ writeOrder = <<2, 1>>
    /\ slots[1].found = slots[2].found
    /\ RequestedRow(slots[1].req) # RequestedRow(slots[2].req)
    /\ \A s \in Slots : RequestedRow(slots[s].req) \notin slots[s].found
    /\ RequestedRow(slots[1].req) \in table
====
